---- MODULE Spec2Model ----
(***************************************************************************)
(* Model of services/api-gateway/dna_direct_import.py: the binder          *)
(* initialize_dna_backend, the module globals it sets, and the three       *)
(* operations of DNADirectIntegration called by concurrent asyncio tasks.  *)
(***************************************************************************)
EXTENDS Integers, Sequences, FiniteSets, TLC

\* Number of concurrent caller tasks of the facade.
NumTasks == 2

Tasks == 1..NumTasks

-----------------------------------------------------------------------------
(* Python values.  Every value carries its type, so that values of          *)
(* different Python types are different values of the model.                *)

PyNone == [type |-> "NoneType", v |-> "None"]
PyStr(s) == [type |-> "str", v |-> s]
PyBool(b) == [type |-> "bool", v |-> b]
PyInt(n) == [type |-> "int", v |-> n]
PyList(l) == [type |-> "list", v |-> l]
PyBytes(b) == [type |-> "bytes", v |-> b]
PyDict(d) == [type |-> "dict", v |-> d]
\* An instance of some class, given by its attributes.
PyObject(attrs) == [type |-> "object", v |-> attrs]

EmptyDict == [k \in {} |-> PyNone]

\* hasattr(obj, name) for the values above: only instances carry the
\* attributes content / body; a dict, a str or None has neither.
hasattr(obj, name) == obj.type = "object" /\ name \in DOMAIN obj.v

\* The keys of a returned value (a non-dict has none).
Keys(val) == IF val.type = "dict" THEN DOMAIN val.v ELSE {}

-----------------------------------------------------------------------------
(* Exceptions: class and args.                                              *)

Exc(cls, args) == [cls |-> cls, args |-> args]
NoExc == Exc("None", <<>>)

\* The modelled classes that derive from Exception.
ExceptionSubclasses ==
    {"Exception", "RuntimeError", "KeyError", "ValueError", "AttributeError",
     "ImportError", "ModuleNotFoundError", "FileNotFoundError", "SyntaxError",
     "UnicodeDecodeError", "JSONDecodeError"}

\* `except Exception` catches only instances of Exception's subclasses.
ExceptException_OnlyImportErrors(e) == e.cls \in {"ImportError", "ModuleNotFoundError"}
ExceptException(e) == e.cls \in ExceptionSubclasses

\* str(e): BaseException.__str__ gives "" for no args, str(args[0]) for one
\* arg and the tuple's repr for more; KeyError gives repr(args[0]) for one.
\* (UnicodeDecodeError and JSONDecodeError carry their rendered message as
\* their single arg.)
Str(e) ==
    IF Len(e.args) = 0 THEN ""
    ELSE IF Len(e.args) = 1
         THEN IF e.cls = "KeyError" THEN "'" \o e.args[1] \o "'" ELSE e.args[1]
         ELSE "('" \o e.args[1] \o "', '" \o e.args[2] \o "')"

-----------------------------------------------------------------------------
(* bytes.decode('utf-8') for one- and two-byte sequences; the bytes 0xF8 to *)
(* 0xFF never start a character.  Three- and four-byte lead bytes are not   *)
(* part of the inputs.                                                      *)

DecodeError(reason) ==
    [ok |-> FALSE,
     exc |-> Exc("UnicodeDecodeError", <<"'utf-8' codec can't decode: " \o reason>>)]

RECURSIVE Utf8DecodeFrom(_, _, _)
Utf8DecodeFrom(b, i, acc) ==
    IF i > Len(b) THEN [ok |-> TRUE, text |-> acc]
    ELSE IF b[i] < 128 THEN Utf8DecodeFrom(b, i + 1, Append(acc, b[i]))
    ELSE IF b[i] \in 194..223
         THEN IF i + 1 > Len(b) THEN DecodeError("unexpected end of data")
              ELSE IF b[i + 1] \in 128..191
                   THEN Utf8DecodeFrom(b, i + 2,
                            Append(acc, (b[i] - 192) * 64 + (b[i + 1] - 128)))
                   ELSE DecodeError("invalid continuation byte")
    ELSE DecodeError("invalid start byte")

\* value.decode('utf-8'): only bytes has the method.
decode(val) ==
    IF val.type = "bytes" THEN Utf8DecodeFrom(val.v, 1, <<>>)
    ELSE [ok |-> FALSE,
          exc |-> Exc("AttributeError",
                      <<"'" \o val.type \o "' object has no attribute 'decode'">>)]

-----------------------------------------------------------------------------
(* json.loads on a sequence of code points: objects, strings without        *)
(* escapes, non-negative integers, true and false.                          *)

Lower == <<"a", "b", "c", "d", "e", "f", "g", "h", "i", "j", "k", "l", "m",
           "n", "o", "p", "q", "r", "s", "t", "u", "v", "w", "x", "y", "z">>
Digit == <<"0", "1", "2", "3", "4", "5", "6", "7", "8", "9">>

\* The one-character string of a code point, for the code points of the
\* documents below (U+00E9 is spelled e').
Chr(c) ==
    IF c \in 97..122 THEN Lower[c - 96]
    ELSE IF c \in 48..57 THEN Digit[c - 47]
    ELSE CASE c = 32 -> " " [] c = 95 -> "_" [] c = 58 -> ":" [] c = 44 -> ","
           [] c = 123 -> "{" [] c = 125 -> "}" [] c = 233 -> "e'"
           [] OTHER -> "?"

JsonError(msg) == [ok |-> FALSE, exc |-> Exc("JSONDecodeError", <<msg>>)]
JsonOk(val, next) == [ok |-> TRUE, val |-> val, next |-> next]

IsWs(c) == c \in {32, 9, 10, 13}

RECURSIVE SkipWs(_, _)
SkipWs(s, i) == IF i <= Len(s) /\ IsWs(s[i]) THEN SkipWs(s, i + 1) ELSE i

RECURSIVE ParseString(_, _, _)
ParseString(s, i, acc) ==
    IF i > Len(s) THEN JsonError("Unterminated string starting at")
    ELSE IF s[i] = 34 THEN JsonOk(PyStr(acc), i + 1)
    ELSE IF s[i] < 32 THEN JsonError("Invalid control character at")
    ELSE ParseString(s, i + 1, acc \o Chr(s[i]))

RECURSIVE ParseDigits(_, _, _)
ParseDigits(s, i, n) ==
    IF i <= Len(s) /\ s[i] \in 48..57 THEN ParseDigits(s, i + 1, 10 * n + (s[i] - 48))
    ELSE JsonOk(PyInt(n), i)

\* A leading 0 is a number on its own.
ParseNumber(s, i) ==
    IF s[i] = 48 THEN JsonOk(PyInt(0), i + 1) ELSE ParseDigits(s, i, 0)

RECURSIVE ParseValue(_, _)
RECURSIVE ParseMembers(_, _, _)

ParseValue(s, i) ==
    IF i > Len(s) THEN JsonError("Expecting value")
    ELSE IF s[i] = 123
         THEN LET j == SkipWs(s, i + 1)
              IN  IF j <= Len(s) /\ s[j] = 125 THEN JsonOk(PyDict(EmptyDict), j + 1)
                  ELSE ParseMembers(s, j, EmptyDict)
    ELSE IF s[i] = 34 THEN ParseString(s, i + 1, "")
    ELSE IF s[i] \in 48..57 THEN ParseNumber(s, i)
    ELSE IF i + 3 <= Len(s) /\ SubSeq(s, i, i + 3) = <<116, 114, 117, 101>>
         THEN JsonOk(PyBool(TRUE), i + 4)
    ELSE IF i + 4 <= Len(s) /\ SubSeq(s, i, i + 4) = <<102, 97, 108, 115, 101>>
         THEN JsonOk(PyBool(FALSE), i + 5)
    ELSE JsonError("Expecting value")

\* The members of an object from position i on; a repeated key keeps the
\* last value.
ParseMembers(s, i, acc) ==
    IF i > Len(s) \/ s[i] # 34
    THEN JsonError("Expecting property name enclosed in double quotes")
    ELSE LET key == ParseString(s, i + 1, "")
         IN  IF ~key.ok THEN key
             ELSE LET c == SkipWs(s, key.next)
                  IN  IF c > Len(s) \/ s[c] # 58 THEN JsonError("Expecting ':' delimiter")
                      ELSE LET val == ParseValue(s, SkipWs(s, c + 1))
                           IN  IF ~val.ok THEN val
                               ELSE LET d == SkipWs(s, val.next)
                                        acc2 == (key.val.v :> val.val) @@ acc
                                    IN  IF d <= Len(s) /\ s[d] = 125
                                        THEN JsonOk(PyDict(acc2), d + 1)
                                        ELSE IF d <= Len(s) /\ s[d] = 44
                                        THEN ParseMembers(s, SkipWs(s, d + 1), acc2)
                                        ELSE JsonError("Expecting ',' delimiter")

\* json.loads(text): one value, surrounded by optional white space.
json_loads(s) ==
    LET r == ParseValue(s, SkipWs(s, 1))
    IN  IF ~r.ok THEN r
        ELSE IF SkipWs(s, r.next) <= Len(s) THEN JsonError("Extra data")
        ELSE r

\* json.loads(value.decode('utf-8')): the parsed value, or the exception
\* raised by decode or by loads.
DecodeAndLoad(val) ==
    LET t == decode(val)
    IN  IF ~t.ok THEN t ELSE json_loads(t.text)

-----------------------------------------------------------------------------
(* The environment of the binder and the values the capabilities produce.   *)

None == "None"
DNA_BACKEND_PATH == "/app/dna/experimental/spi/note_assistant_v2/backend"

\* What `import llm_service` and the two attribute reads find.
LlmServiceEnv == {"ok", "absent", "import_error", "no_get_available_models_endpoint",
                  "no_llm_summary"}
\* What the explicit load of main.py finds.
MainEnv == {"ok", "missing_file", "null_spec", "exec_error", "no_get_config"}

\* Exceptions a capability raises during a call.
Raised ==
    {Exc("RuntimeError", <<"provider timeout">>),
     Exc("Exception", <<>>),
     Exc("KeyError", <<"model">>),
     Exc("ValueError", <<"DNA backend not available">>)}

Return(val) == [kind |-> "return", val |-> val, exc |-> NoExc]
Raise(e) == [kind |-> "raise", val |-> PyNone, exc |-> e]
NoOutcome == [kind |-> "none", val |-> PyNone, exc |-> NoExc]

\* Values llm_service.get_available_models_endpoint() resolves to.
ModelsReturns ==
    {PyDict([available_models |-> PyList(<<PyStr("gpt-4o")>>),
             enabled_providers |-> PyList(<<PyStr("openai")>>),
             available_prompt_types |-> PyList(<<PyStr("short"), PyStr("long")>>),
             disable_llm |-> PyBool(FALSE)]),
     PyDict([available_models |-> PyList(<<>>),
             enabled_providers |-> PyList(<<>>),
             available_prompt_types |-> PyList(<<PyStr("short")>>),
             disable_llm |-> PyBool(TRUE),
             error |-> PyStr("no provider key configured")])}

\* Request payloads of llm_summary.
Requests ==
    {PyDict([text |-> PyStr("notes"), prompt_type |-> PyStr("short")]),
     PyDict(EmptyDict)}

\* Values llm_service.llm_summary(request_data) resolves to.
SummaryReturns ==
    {PyDict([summary |-> PyStr("Shot approved."),
             provider |-> PyStr("openai"),
             model |-> PyStr("gpt-4o"),
             prompt_type |-> PyStr("short"),
             routed |-> PyBool(TRUE)]),
     PyDict([summary |-> PyStr("Shot approved."),
             provider |-> PyStr("openai"),
             model |-> PyStr("gpt-4o"),
             prompt_type |-> PyStr("short"),
             routed |-> PyBool(FALSE),
             error |-> PyBool(FALSE)])}

\* {"shotgrid_enabled":true,"integrated":true}
ConfigBytes == <<123, 34, 115, 104, 111, 116, 103, 114, 105, 100, 95, 101, 110, 97, 98, 108, 101, 100, 34, 58, 116, 114, 117, 101, 44, 34, 105, 110, 116, 101, 103, 114, 97, 116, 101, 100, 34, 58, 116, 114, 117, 101, 125>>
\* {"a": 1, "b": "x"}
SpacedBytes == <<123, 34, 97, 34, 58, 32, 49, 44, 32, 34, 98, 34, 58, 32, 34, 120, 34, 125>>
\* {"a":"<U+00E9>"}, the character in two bytes
AccentBytes == <<123, 34, 97, 34, 58, 34, 195, 169, 34, 125>>
\* {"a":1
TruncatedJsonBytes == <<123, 34, 97, 34, 58, 49>>
\* 1
ScalarBytes == <<49>>
\* { 0xFF }
BadStartBytes == <<123, 255, 125>>

\* Values dna_backend_main.get_config() returns: response objects exposing
\* content, body, both or neither, and a plain dict.
ConfigReturns ==
    {PyObject([body |-> PyBytes(ConfigBytes), status_code |-> PyInt(200)]),
     PyObject([content |-> PyBytes(SpacedBytes)]),
     PyObject([content |-> PyBytes(ConfigBytes), body |-> PyBytes(SpacedBytes)]),
     PyObject([content |-> PyBytes(BadStartBytes), body |-> PyBytes(ConfigBytes)]),
     PyObject([content |-> PyBytes(TruncatedJsonBytes), body |-> PyBytes(ConfigBytes)]),
     PyObject([content |-> PyNone, body |-> PyBytes(ConfigBytes)]),
     PyObject([body |-> PyBytes(AccentBytes)]),
     PyObject([body |-> PyBytes(ScalarBytes)]),
     PyObject([body |-> PyStr("{}")]),
     PyObject([status_code |-> PyInt(204)]),
     PyDict([shotgrid_enabled |-> PyBool(TRUE),
             vexa_routing_enabled |-> PyBool(TRUE),
             llm_backend_routing_enabled |-> PyBool(FALSE)])}

ModelsOutcomes == {Return(val) : val \in ModelsReturns} \cup {Raise(e) : e \in Raised}
SummaryOutcomes == {Return(val) : val \in SummaryReturns} \cup {Raise(e) : e \in Raised}
ConfigOutcomes == {Return(val) : val \in ConfigReturns} \cup {Raise(e) : e \in Raised}

-----------------------------------------------------------------------------
VARIABLES
    sys_path,                       \* sys.path
    sys_modules,                    \* the names this module registers in sys.modules
    get_available_models_endpoint,  \* module global, line 19
    llm_summary,                    \* module global, line 20
    get_config,                     \* module global, line 21
    DNA_BACKEND_AVAILABLE,          \* module global, line 22
    binder,                         \* "pending", "done" or "raised"
    binderError,                    \* the exception raised inside the binder's try
    binderStep,                     \* the step (1 or 2) the try block ended in; 0 before
    dna_direct_integration,         \* the facade instance: "absent" or its start-up line
    task                            \* the caller tasks' calls into the facade

handles == <<get_available_models_endpoint, llm_summary, get_config>>
availability == <<DNA_BACKEND_AVAILABLE, get_available_models_endpoint, llm_summary, get_config>>
vars == <<sys_path, sys_modules, get_available_models_endpoint, llm_summary, get_config,
          DNA_BACKEND_AVAILABLE, binder, binderError, binderStep, dna_direct_integration,
          task>>

\* A task that is not inside a facade call.
Idle ==
    [pc |-> "idle", op |-> "None", request_data |-> PyNone, invocations |-> 0,
     capArgs |-> <<>>, outcome |-> NoOutcome, branch |-> "none", paths |-> {},
     result |-> PyNone]

Init ==
    /\ sys_path \in {<<"/app">>, <<DNA_BACKEND_PATH, "/app">>}
    /\ sys_modules = {}
    /\ get_available_models_endpoint = None
    /\ llm_summary = None
    /\ get_config = None
    /\ DNA_BACKEND_AVAILABLE = FALSE
    /\ binder = "pending"
    /\ binderError = NoExc
    /\ binderStep = 0
    /\ dna_direct_integration = "absent"
    /\ task = [t \in Tasks |-> Idle]

-----------------------------------------------------------------------------
(* initialize_dna_backend                                                   *)

InSeq(e, s) == \E i \in 1..Len(s) : s[i] = e

\* Step 1 (lines 35-37): the import and the two attribute reads, in order;
\* an assignment made before the failing statement stays.
Step1(env) ==
    CASE env = "absent" ->
           [exc |-> Exc("ModuleNotFoundError", <<"No module named 'llm_service'">>),
            models |-> None, summary |-> None]
      [] env = "import_error" ->
           [exc |-> Exc("ImportError", <<"cannot import name 'OpenAI' from 'openai'">>),
            models |-> None, summary |-> None]
      [] env = "no_get_available_models_endpoint" ->
           [exc |-> Exc("AttributeError",
                        <<"module 'llm_service' has no attribute 'get_available_models_endpoint'">>),
            models |-> None, summary |-> None]
      [] env = "no_llm_summary" ->
           [exc |-> Exc("AttributeError",
                        <<"module 'llm_service' has no attribute 'llm_summary'">>),
            models |-> "llm_service.get_available_models_endpoint", summary |-> None]
      [] env = "ok" ->
           [exc |-> NoExc,
            models |-> "llm_service.get_available_models_endpoint",
            summary |-> "llm_service.llm_summary"]

\* Step 2 (lines 41-53): main.py loaded by path; the module is registered in
\* sys.modules (line 50) before it is executed.
Step2(env) ==
    CASE env = "missing_file" ->
           [exc |-> Exc("FileNotFoundError", <<"DNA backend main.py not found at: main.py">>),
            registered |-> FALSE, config |-> None]
      [] env = "null_spec" ->
           [exc |-> Exc("ImportError", <<"Could not create module spec for: main.py">>),
            registered |-> FALSE, config |-> None]
      [] env = "exec_error" ->
           [exc |-> Exc("SyntaxError", <<"invalid syntax">>),
            registered |-> TRUE, config |-> None]
      [] env = "no_get_config" ->
           [exc |-> Exc("AttributeError",
                        <<"module 'dna_backend_main' has no attribute 'get_config'">>),
            registered |-> TRUE, config |-> None]
      [] env = "ok" ->
           [exc |-> NoExc, registered |-> TRUE, config |-> "dna_backend_main.get_config"]

initialize_dna_backend ==
    /\ binder = "pending"
    /\ \E env1 \in LlmServiceEnv, env2 \in MainEnv :
         LET s1 == Step1(env1)
             ran2 == s1.exc = NoExc
             s2 == Step2(env2)
             exc == IF ran2 THEN s2.exc ELSE s1.exc
         IN  /\ sys_path' = IF InSeq(DNA_BACKEND_PATH, sys_path) THEN sys_path
                            ELSE <<DNA_BACKEND_PATH>> \o sys_path
             /\ get_available_models_endpoint' = s1.models
             /\ llm_summary' = s1.summary
             /\ get_config' = IF ran2 THEN s2.config ELSE get_config
             /\ sys_modules' = IF ran2 /\ s2.registered
                               THEN sys_modules \cup {"dna_backend_main"}
                               ELSE sys_modules
             /\ binderError' = exc
             /\ binderStep' = IF ran2 THEN 2 ELSE 1
             /\ IF exc = NoExc
                THEN DNA_BACKEND_AVAILABLE' = TRUE /\ binder' = "done"
                ELSE IF ExceptException(exc)
                THEN DNA_BACKEND_AVAILABLE' = FALSE /\ binder' = "done"
                ELSE UNCHANGED DNA_BACKEND_AVAILABLE /\ binder' = "raised"
    /\ UNCHANGED <<dna_direct_integration, task>>

-----------------------------------------------------------------------------
(* DNADirectIntegration                                                     *)

\* Line 165: the global instance, made when the module's import got past the
\* binder; __init__ prints one of two lines.
DNADirectIntegration_init ==
    /\ binder = "done"
    /\ dna_direct_integration = "absent"
    /\ dna_direct_integration' =
         IF ~DNA_BACKEND_AVAILABLE
         THEN "DNA backend not available - using fallback responses"
         ELSE "DNA Direct Integration initialized successfully"
    /\ UNCHANGED <<sys_path, sys_modules, availability, binder, binderError, binderStep,
                   task>>

\* The methods declare no global and assign none of the module's names.
MethodFrame_ClearsFlag ==
    /\ DNA_BACKEND_AVAILABLE' = FALSE
    /\ UNCHANGED <<sys_path, sys_modules, handles, binder, binderError, binderStep,
                   dna_direct_integration>>
MethodFrame ==
    UNCHANGED <<sys_path, sys_modules, availability, binder, binderError, binderStep,
                dna_direct_integration>>

\* The return of a call, in one of the three branches.
Returned(c, branch, val) ==
    [c EXCEPT !.pc = "returned", !.branch = branch, !.result = val]

\* One call expression of a capability.
Invoke(c, args) ==
    [c EXCEPT !.invocations = @ + 1, !.capArgs = args]

\* An except block holds no further call of the capability.
ExceptBlock_Retry(c) == [c EXCEPT !.invocations = @ + 1]
ExceptBlock(c) == c

\* ---- get_available_models ----

get_available_models_guard_HandleOnly == get_available_models_endpoint = None
get_available_models_guard ==
    ~DNA_BACKEND_AVAILABLE \/ get_available_models_endpoint = None

\* Lines 81-87.
get_available_models_unavailable ==
    PyDict([available_models |-> PyList(<<>>),
            enabled_providers |-> PyList(<<>>),
            available_prompt_types |-> PyList(<<PyStr("short")>>),
            disable_llm |-> PyBool(TRUE),
            error |-> PyStr("DNA backend not available")])

\* Lines 94-100.
get_available_models_except_FixedWording(e) ==
    PyDict([available_models |-> PyList(<<>>),
            enabled_providers |-> PyList(<<>>),
            available_prompt_types |-> PyList(<<PyStr("short")>>),
            disable_llm |-> PyBool(TRUE),
            error |-> PyStr("DNA backend not available")])
get_available_models_except_LlmEnabled(e) ==
    PyDict([available_models |-> PyList(<<>>),
            enabled_providers |-> PyList(<<>>),
            available_prompt_types |-> PyList(<<PyStr("short")>>),
            disable_llm |-> PyBool(FALSE),
            error |-> PyStr(Str(e))])
get_available_models_except(e) ==
    PyDict([available_models |-> PyList(<<>>),
            enabled_providers |-> PyList(<<>>),
            available_prompt_types |-> PyList(<<PyStr("short")>>),
            disable_llm |-> PyBool(TRUE),
            error |-> PyStr(Str(e))])

\* Lines 78-91, up to the await.
DNADirectIntegration_get_available_models(t) ==
    /\ dna_direct_integration # "absent"
    /\ task[t].pc = "idle"
    /\ LET c == [task[t] EXCEPT !.op = "get_available_models"]
       IN  task' = [task EXCEPT ![t] =
                      IF get_available_models_guard
                      THEN Returned(c, "unavailable", get_available_models_unavailable)
                      ELSE [Invoke(c, <<>>) EXCEPT !.pc = "awaiting"]]
    /\ MethodFrame

\* The end of a call: what the awaited capability did, and the return or
\* the except block that follows.
Resume(c, out, fallback) ==
    IF out.kind = "return"
    THEN Returned([c EXCEPT !.outcome = out], "success", out.val)
    ELSE IF ExceptException(out.exc)
    THEN Returned(ExceptBlock([c EXCEPT !.outcome = out]), "exception", fallback)
    ELSE [c EXCEPT !.outcome = out, !.pc = "raised", !.branch = "escaped"]

\* Lines 91-100, from the await on.
DNADirectIntegration_get_available_models_resume(t) ==
    /\ task[t].pc = "awaiting"
    /\ task[t].op = "get_available_models"
    /\ \E out \in ModelsOutcomes :
         task' = [task EXCEPT ![t] =
                    Resume(task[t], out, get_available_models_except(out.exc))]
    /\ MethodFrame

\* ---- llm_summary ----

llm_summary_guard ==
    ~DNA_BACKEND_AVAILABLE \/ llm_summary = None

\* Lines 105-112.
llm_summary_unavailable ==
    PyDict([summary |-> PyStr("Error: DNA backend not available"),
            provider |-> PyStr("none"),
            model |-> PyStr("none"),
            prompt_type |-> PyStr("short"),
            routed |-> PyBool(FALSE),
            error |-> PyBool(TRUE)])

\* Lines 119-126.
llm_summary_except_NoRouted(e) ==
    PyDict([summary |-> PyStr("Error: " \o Str(e)),
            provider |-> PyStr("error"),
            model |-> PyStr("none"),
            prompt_type |-> PyStr("short"),
            error |-> PyBool(TRUE)])
llm_summary_except(e) ==
    PyDict([summary |-> PyStr("Error: " \o Str(e)),
            provider |-> PyStr("error"),
            model |-> PyStr("none"),
            prompt_type |-> PyStr("short"),
            routed |-> PyBool(FALSE),
            error |-> PyBool(TRUE)])

\* The argument list of the call at line 116.
llm_summary_args_Copy(request_data) ==
    <<PyDict([k \in DOMAIN request_data.v \ {"prompt_type"} |-> request_data.v[k]])>>
llm_summary_args(request_data) == <<request_data>>

\* Lines 102-116, up to the await.
DNADirectIntegration_llm_summary(t) ==
    /\ dna_direct_integration # "absent"
    /\ task[t].pc = "idle"
    /\ \E request_data \in Requests :
         LET c == [task[t] EXCEPT !.op = "llm_summary", !.request_data = request_data]
         IN  task' = [task EXCEPT ![t] =
                        IF llm_summary_guard
                        THEN Returned(c, "unavailable", llm_summary_unavailable)
                        ELSE [Invoke(c, llm_summary_args(request_data))
                                EXCEPT !.pc = "awaiting"]]
    /\ MethodFrame

\* Lines 116-126, from the await on.
DNADirectIntegration_llm_summary_resume(t) ==
    /\ task[t].pc = "awaiting"
    /\ task[t].op = "llm_summary"
    /\ \E out \in SummaryOutcomes :
         task' = [task EXCEPT ![t] = Resume(task[t], out, llm_summary_except(out.exc))]
    /\ MethodFrame

\* ---- get_config ----

get_config_guard ==
    ~DNA_BACKEND_AVAILABLE \/ get_config = None

\* Lines 131-137.
get_config_unavailable ==
    PyDict([shotgrid_enabled |-> PyBool(FALSE),
            vexa_routing_enabled |-> PyBool(FALSE),
            llm_backend_routing_enabled |-> PyBool(FALSE),
            integrated |-> PyBool(TRUE),
            error |-> PyStr("DNA backend not available")])

\* Lines 156-162.
get_config_except(e) ==
    PyDict([shotgrid_enabled |-> PyBool(FALSE),
            vexa_routing_enabled |-> PyBool(FALSE),
            llm_backend_routing_enabled |-> PyBool(FALSE),
            integrated |-> PyBool(TRUE),
            error |-> PyStr(Str(e))])

\* Lines 143-153: the branch taken for config_response and what its return
\* statement evaluates to (a value, or an exception from decode or loads).
get_config_normalize_BodyFirst(config_response) ==
    IF hasattr(config_response, "body")
    THEN [path |-> "body", r |-> DecodeAndLoad(config_response.v.body)]
    ELSE IF hasattr(config_response, "content")
    THEN [path |-> "content", r |-> DecodeAndLoad(config_response.v.content)]
    ELSE [path |-> "passthrough", r |-> [ok |-> TRUE, val |-> config_response]]
get_config_normalize(config_response) ==
    IF hasattr(config_response, "content")
    THEN [path |-> "content", r |-> DecodeAndLoad(config_response.v.content)]
    ELSE IF hasattr(config_response, "body")
    THEN [path |-> "body", r |-> DecodeAndLoad(config_response.v.body)]
    ELSE [path |-> "passthrough", r |-> [ok |-> TRUE, val |-> config_response]]

\* Lines 139-162 for one outcome of the capability: the call, the
\* normalization and the except block around both.
get_config_try(c, out) ==
    LET called == [Invoke(c, <<>>) EXCEPT !.outcome = out]
    IN  IF out.kind = "raise"
        THEN IF ExceptException(out.exc)
             THEN Returned(ExceptBlock(called), "exception", get_config_except(out.exc))
             ELSE [called EXCEPT !.pc = "raised", !.branch = "escaped"]
        ELSE LET n == get_config_normalize(out.val)
                 taken == [called EXCEPT !.paths = @ \cup {n.path}]
             IN  IF n.r.ok THEN Returned(taken, "success", n.r.val)
                 ELSE IF ExceptException(n.r.exc)
                 THEN Returned(ExceptBlock(taken), "exception", get_config_except(n.r.exc))
                 ELSE [taken EXCEPT !.pc = "raised", !.branch = "escaped"]

\* Lines 128-162: the capability is called synchronously, so the whole
\* method is one step.
DNADirectIntegration_get_config(t) ==
    /\ dna_direct_integration # "absent"
    /\ task[t].pc = "idle"
    /\ LET c == [task[t] EXCEPT !.op = "get_config"]
       IN  IF get_config_guard
           THEN task' = [task EXCEPT ![t] =
                           Returned(c, "unavailable", get_config_unavailable)]
           ELSE \E out \in ConfigOutcomes :
                  task' = [task EXCEPT ![t] = get_config_try(c, out)]
    /\ MethodFrame

\* The caller takes the returned value; the task is free for its next call.
TaskDone(t) ==
    /\ task[t].pc = "returned"
    /\ task' = [task EXCEPT ![t] = Idle]
    /\ MethodFrame

Next ==
    \/ initialize_dna_backend
    \/ DNADirectIntegration_init
    \/ \E t \in Tasks : DNADirectIntegration_get_available_models(t)
    \/ \E t \in Tasks : DNADirectIntegration_get_available_models_resume(t)
    \/ \E t \in Tasks : DNADirectIntegration_llm_summary(t)
    \/ \E t \in Tasks : DNADirectIntegration_llm_summary_resume(t)
    \/ \E t \in Tasks : DNADirectIntegration_get_config(t)
    \/ \E t \in Tasks : TaskDone(t)

Spec == Init /\ [][Next]_vars

-----------------------------------------------------------------------------
(* Properties.                                                              *)

AsyncOps == {"get_available_models", "llm_summary"}

\* The values and key sets the facade's contract names, written out.
FixedWording == "DNA backend not available"

ModelsFallback(err) ==
    PyDict([available_models |-> PyList(<<>>),
            enabled_providers |-> PyList(<<>>),
            available_prompt_types |-> PyList(<<PyStr("short")>>),
            disable_llm |-> PyBool(TRUE),
            error |-> PyStr(err)])

SummaryFallback(msg, provider) ==
    PyDict([summary |-> PyStr("Error: " \o msg),
            provider |-> PyStr(provider),
            model |-> PyStr("none"),
            prompt_type |-> PyStr("short"),
            routed |-> PyBool(FALSE),
            error |-> PyBool(TRUE)])

ConfigFallback(err) ==
    PyDict([shotgrid_enabled |-> PyBool(FALSE),
            vexa_routing_enabled |-> PyBool(FALSE),
            llm_backend_routing_enabled |-> PyBool(FALSE),
            integrated |-> PyBool(TRUE),
            error |-> PyStr(err)])

FixedFallback(op) ==
    CASE op = "get_available_models" -> ModelsFallback(FixedWording)
      [] op = "llm_summary" -> SummaryFallback(FixedWording, "none")
      [] op = "get_config" -> ConfigFallback(FixedWording)

FallbackKeys(op) == Keys(FixedFallback(op))

\* What the code returns for op when the dependency is unavailable.
CodeUnavailable(op) ==
    CASE op = "get_available_models" -> get_available_models_unavailable
      [] op = "llm_summary" -> llm_summary_unavailable
      [] op = "get_config" -> get_config_unavailable

\* The exception a call's except block handled: the one the capability
\* raised, or the one decode / loads raised on the capability's value.
Handled(c) ==
    IF c.outcome.kind = "raise" THEN c.outcome.exc
    ELSE get_config_normalize(c.outcome.val).r.exc

\* C1: whenever DNA_BACKEND_AVAILABLE is false, every call of each of the
\* three operations returns at once, with exactly the operation's fixed
\* fallback (wording "DNA backend not available"), for every payload, and
\* without invoking a capability, whatever the three handles hold.
C1_UnavailableReturnsFixedFallback ==
    \A t \in Tasks :
        (task[t].pc # "idle" /\ ~DNA_BACKEND_AVAILABLE) =>
            /\ task[t].pc = "returned"
            /\ task[t].branch = "unavailable"
            /\ task[t].result = FixedFallback(task[t].op)
            /\ task[t].invocations = 0
            /\ task[t].capArgs = <<>>
            /\ task[t].outcome = NoOutcome

\* C1's case: the flag is false while handles of step 1 are still bound, and
\* calls of all three kinds were answered (here two of them at once).
C1_Witness ==
    /\ ~DNA_BACKEND_AVAILABLE
    /\ get_available_models_endpoint # None
    /\ llm_summary # None
    /\ \E t, u \in Tasks :
         /\ task[t].pc = "returned" /\ task[t].op = "get_available_models"
         /\ task[u].pc = "returned" /\ task[u].op = "llm_summary"
         /\ task[u].request_data # PyDict(EmptyDict)

C3_AllOrNothing ==
    binder = "done" =>
        /\ DNA_BACKEND_AVAILABLE <=>
              (/\ get_available_models_endpoint # None
               /\ llm_summary # None
               /\ get_config # None)
        /\ (binderStep = 2 /\ binderError # NoExc) =>
              (/\ ~DNA_BACKEND_AVAILABLE
               /\ get_available_models_endpoint = None
               /\ llm_summary = None
               /\ get_config = None)

C5_SameKeysInAllBranches ==
    \A t \in Tasks :
        task[t].pc = "returned" => Keys(task[t].result) = FallbackKeys(task[t].op)

\* C5 amended: for each operation the returned value is a dict with the same
\* key set in the unavailable branch and in the exception branch; in the
\* success branch of the two async operations its key set is that of the
\* capability's value, whatever that is.
C5_SameKeysInFallbackBranches ==
    \A t \in Tasks :
        task[t].pc = "returned" =>
            /\ task[t].branch \in {"unavailable", "exception"} =>
                  /\ task[t].result.type = "dict"
                  /\ Keys(task[t].result) = FallbackKeys(task[t].op)
            /\ (task[t].branch = "success" /\ task[t].op \in AsyncOps) =>
                  Keys(task[t].result) = Keys(task[t].outcome.val)

\* C5's case: llm_summary returned in the exception branch while another
\* call returned a capability's value whose key set is not the fallback's.
C5_Witness ==
    \E t, u \in Tasks :
        /\ task[t].pc = "returned" /\ task[t].op = "llm_summary"
        /\ task[t].branch = "exception"
        /\ task[u].pc = "returned" /\ task[u].branch = "success"
        /\ Keys(task[u].result) # FallbackKeys(task[u].op)

\* C6: when the dependency is available and the capability returns,
\* get_available_models returns the capability's value unchanged, and
\* llm_summary calls the capability with exactly the request payload and
\* returns its value unchanged.
C6_PassThrough ==
    \A t \in Tasks :
        /\ (task[t].op = "llm_summary" /\ task[t].invocations > 0) =>
              task[t].capArgs = <<task[t].request_data>>
        /\ (task[t].op = "get_available_models" /\ task[t].invocations > 0) =>
              task[t].capArgs = <<>>
        /\ (task[t].op \in AsyncOps /\ task[t].outcome.kind = "return") =>
              /\ task[t].pc = "returned"
              /\ task[t].branch = "success"
              /\ task[t].result = task[t].outcome.val

\* C6's case: llm_summary returned its capability's value for a payload with
\* keys, and get_available_models returned its capability's value.
C6_Witness ==
    \E t, u \in Tasks :
        /\ task[t].pc = "returned" /\ task[t].op = "llm_summary"
        /\ task[t].branch = "success"
        /\ Keys(task[t].request_data) = {"text", "prompt_type"}
        /\ task[u].pc = "returned" /\ task[u].op = "get_available_models"
        /\ task[u].branch = "success"

\* What get_config must return for a value taken down the path of payload b.
C7_ParsedOrFallback(c, b) ==
    LET r == DecodeAndLoad(b)
    IN  IF r.ok
        THEN c.branch = "success" /\ c.result = r.val
        ELSE c.branch = "exception" /\ c.result = ConfigFallback(Str(r.exc))

\* C7: when the dependency is available, get_config normalizes the
\* capability's value down exactly one path, content before body before
\* pass-through; a content (or body) that fails to decode or parse gives the
\* error fallback and no other path is tried.
C7_OnePathInPriorityOrder ==
    \A t \in Tasks :
        (task[t].op = "get_config" /\ task[t].outcome.kind = "return") =>
            LET resp == task[t].outcome.val
            IN  /\ task[t].pc = "returned"
                /\ Cardinality(task[t].paths) = 1
                /\ IF resp.type = "object" /\ "content" \in DOMAIN resp.v
                   THEN /\ task[t].paths = {"content"}
                        /\ C7_ParsedOrFallback(task[t], resp.v.content)
                   ELSE IF resp.type = "object" /\ "body" \in DOMAIN resp.v
                   THEN /\ task[t].paths = {"body"}
                        /\ C7_ParsedOrFallback(task[t], resp.v.body)
                   ELSE /\ task[t].paths = {"passthrough"}
                        /\ task[t].branch = "success"
                        /\ task[t].result = resp

\* C7's case: the value exposes a content that does not parse and a body
\* that does, and the call returned the error fallback.
C7_Witness ==
    \E t \in Tasks :
        /\ task[t].pc = "returned" /\ task[t].op = "get_config"
        /\ task[t].outcome.kind = "return"
        /\ hasattr(task[t].outcome.val, "content")
        /\ hasattr(task[t].outcome.val, "body")
        /\ ~DecodeAndLoad(task[t].outcome.val.v.content).ok
        /\ DecodeAndLoad(task[t].outcome.val.v.body).ok
        /\ task[t].branch = "exception"

\* C8 as stated: for each operation the value returned in the exception
\* branch has the keys of the value returned when unavailable and differs
\* from it in no field but error.
C8_DifferOnlyInError ==
    \A t \in Tasks :
        (task[t].pc = "returned" /\ task[t].branch = "exception") =>
            /\ Keys(task[t].result) = Keys(CodeUnavailable(task[t].op))
            /\ \A k \in Keys(task[t].result) \ {"error"} :
                  task[t].result.v[k] = CodeUnavailable(task[t].op).v[k]

\* C8 amended: get_available_models and get_config differ between the two
\* branches in no field but error (the message); llm_summary differs in
\* summary (the message) and in provider ("none" when unavailable, "error"
\* on an exception), its error being True in both.
C8_DifferOnlyInMessageFields ==
    \A t \in Tasks :
        (task[t].pc = "returned" /\ task[t].branch = "exception") =>
            LET unavailable == CodeUnavailable(task[t].op)
                differ == IF task[t].op = "llm_summary" THEN {"summary", "provider"}
                          ELSE {"error"}
            IN  /\ Keys(task[t].result) = Keys(unavailable)
                /\ \A k \in Keys(task[t].result) \ differ :
                      task[t].result.v[k] = unavailable.v[k]
                /\ task[t].op = "llm_summary" =>
                      /\ task[t].result.v.provider = PyStr("error")
                      /\ unavailable.v.provider = PyStr("none")
                      /\ task[t].result.v.summary = PyStr("Error: " \o Str(Handled(task[t])))
                /\ task[t].op # "llm_summary" =>
                      task[t].result.v.error = PyStr(Str(Handled(task[t])))

\* C8's case: get_available_models and get_config both returned in the
\* exception branch.
C8_Witness ==
    \E t, u \in Tasks :
        /\ task[t].pc = "returned" /\ task[t].op = "get_available_models"
        /\ task[t].branch = "exception"
        /\ task[u].pc = "returned" /\ task[u].op = "get_config"
        /\ task[u].branch = "exception"

\* C9: once the binder has run, no step (the facade's construction, a call's
\* start, its resumption in any branch, under any interleaving) changes the
\* flag or a handle.
C9_AvailabilityFrozen ==
    [][binder # "pending" => UNCHANGED availability]_vars

\* C9's case: with the dependency bound, one call has returned from its
\* except block while another is suspended at its capability.
C9_Witness ==
    /\ DNA_BACKEND_AVAILABLE
    /\ \E t, u \in Tasks :
         /\ task[t].pc = "returned" /\ task[t].branch = "exception"
         /\ task[u].pc = "awaiting"

\* C10, state part: a call has invoked its capability at most once: once
\* when the dependency is available, never when it is not; a call whose
\* capability or normalization failed has returned the fallback.
C10_AtMostOnce ==
    \A t \in Tasks :
        /\ task[t].invocations <= 1
        /\ task[t].pc = "awaiting" => task[t].invocations = 1
        /\ task[t].pc = "returned" =>
              task[t].invocations = IF DNA_BACKEND_AVAILABLE THEN 1 ELSE 0
        /\ task[t].outcome.kind = "raise" =>
              task[t].pc = "returned" /\ task[t].branch = "exception"

\* C10, step part: the step that ends a suspended call returns and invokes
\* nothing.
C10_ResumeInvokesNothing ==
    \A t \in Tasks :
        (task[t].pc = "awaiting" /\ task'[t] # task[t]) =>
            /\ task'[t].pc = "returned"
            /\ task'[t].invocations = task[t].invocations

\* C10: no retries: one invocation per call when the dependency is
\* available and none when it is not, and a failed invocation is followed at
\* once by the fallback return, never by another invocation.
C10_NoRetries ==
    [](C10_AtMostOnce) /\ [][C10_ResumeInvokesNothing]_vars

\* C10's case: a capability raised, was invoked once, and the call returned.
C10_Witness ==
    \E t \in Tasks :
        /\ task[t].pc = "returned" /\ task[t].op = "get_available_models"
        /\ task[t].outcome.kind = "raise"
        /\ task[t].invocations = 1
        /\ task[t].result = ModelsFallback(Str(task[t].outcome.exc))

====
